---- MODULE Spec2Model ----
(***************************************************************************)
(* Model of the AI facade class of src/src/index.ts: one instance, its     *)
(* nine async methods, the file reader (fs.readFileSync), the URL          *)
(* constructor and the inference provider (the "ai" SDK functions          *)
(* generateText, streamText, generateObject, streamObject).                *)
(*                                                                         *)
(* A JavaScript value that may be undefined is a sequence of length 0 or 1 *)
(* (Undefined, Some(v)).  An async method runs synchronously up to its     *)
(* first await; every await is a point where another call of the same      *)
(* instance may run, so a call is a slot with a program position.          *)
(***************************************************************************)
EXTENDS Naturals, Sequences, FiniteSets, TLC

VARIABLES
    provider,       \* AI.provider
    apiKey,         \* AI.apiKey
    modelName,      \* AI.modelName
    model,          \* AI.model : LanguageModel | undefined
    calls,          \* the calls in flight, one record per slot
    facadeCalls,    \* number of method calls made on the instance
    providerCalls,  \* number of calls made to the provider functions
    fileReads       \* number of calls made to fs.readFileSync

vars == <<provider, apiKey, modelName, model, calls, facadeCalls, providerCalls, fileReads>>

facade == <<provider, apiKey, modelName, model>>

(* ------------------------------ bounds -------------------------------- *)

MaxCalls == 2       \* method calls made on the instance in one behaviour
MaxMsgs == 2        \* longest message sequence a caller passes

Slots == {1, 2}     \* calls that may overlap at their awaits

(* ------------------------- JavaScript values -------------------------- *)

Undefined == <<>>
Some(v) == <<v>>

(* ------------------------------ inputs -------------------------------- *)

ProviderNames == {"groq", "Groq", "openai"}
ModelNames == {"deepseek-r1-distill-llama-70b"}
ApiKeys == {"gsk_key"}

TextPart(text) == [type |-> "text", kind |-> "string", data |-> text, mimeType |-> ""]

Conversation ==
    << [role |-> "system",    content |-> <<TextPart("be brief")>>],
       [role |-> "user",      content |-> <<TextPart("hi")>>],
       [role |-> "assistant", content |-> <<TextPart("hello")>>],
       [role |-> "user",      content |-> <<TextPart("and now?")>>],
       [role |-> "assistant", content |-> <<TextPart("nothing")>>] >>

\* The message sequences callers pass: the first turns of a conversation whose
\* turns all differ, so that a change of order, role or length shows.
MessageSeqs == { SubSeq(Conversation, 1, n) : n \in 0..MaxMsgs }

Schemas == {"z.object({name})"}
CategoryLists == { <<"a", "b", "c">>, <<"spam", "ham">> }
MimeTypes == {"application/pdf"}
Paths == {"/data/cat.png", "/data/missing.png"}
URLs == {"HTTP://EXAMPLE.COM", "not a url"}

(* --------------------------- collaborators ---------------------------- *)

NoError == [name |-> "", message |-> ""]

\* fs.readFileSync(path): the bytes of the file, or a thrown Error.
ReadFileSync(path) ==
    CASE path = "/data/cat.png" ->
            [ok |-> TRUE, data |-> "89504e47", err |-> NoError]
      [] OTHER ->
            [ok |-> FALSE, data |-> "",
             err |-> [name |-> "Error",
                      message |-> "ENOENT: no such file or directory, open '" \o path \o "'"]]

\* new URL(imageURL): the parsed URL (scheme and host lower-cased, an empty
\* path made "/"), or a thrown TypeError.
NewURL(imageURL) ==
    CASE imageURL = "HTTP://EXAMPLE.COM" ->
            [ok |-> TRUE, href |-> "http://example.com/", err |-> NoError]
      [] OTHER ->
            [ok |-> FALSE, href |-> "",
             err |-> [name |-> "TypeError", message |-> "Invalid URL"]]

\* The faults the provider functions throw: Error objects of the SDK, one of
\* them with an empty message.
ProviderFaults ==
    { [name |-> "AI_APICallError", message |-> "Rate limit reached"],
      [name |-> "AI_NoObjectGeneratedError", message |-> ""] }

Usage == [promptTokens |-> 3, completionTokens |-> 5, totalTokens |-> 8]

\* What a provider function resolves to, given the request it received.
ProviderOutputs(req) ==
    CASE req.fn = "generateText" ->
            { [text |-> Some("hello"), reasoning |-> r, usage |-> Some(Usage),
               object |-> Undefined, textStream |-> Undefined,
               partialObjectStream |-> Undefined] :
                r \in {Undefined, Some("the user greets me")} }
      [] req.fn = "streamText" ->
            { [text |-> Undefined, reasoning |-> Some("Promise<reasoning>"),
               usage |-> Undefined, object |-> Undefined,
               textStream |-> Some("AsyncIterable<string>"),
               partialObjectStream |-> Undefined] }
      [] req.fn = "generateObject" ->
            { [text |-> Undefined, reasoning |-> Undefined, usage |-> Some(Usage),
               object |-> Some(o), textStream |-> Undefined,
               partialObjectStream |-> Undefined] :
                o \in IF req.output = "enum"
                        THEN { req.enum[i] : i \in 1..Len(req.enum) }
                        ELSE { "{name: cat}" } }
      [] OTHER ->
            { [text |-> Undefined, reasoning |-> Undefined, usage |-> Undefined,
               object |-> Undefined, textStream |-> Undefined,
               partialObjectStream |-> Some("AsyncIterable<partial>")] }

(* ------------------------- construction ------------------------------- *)

\* Mutant: the switch has a default branch that resolves a handle for any name.
InitializeAIModelAnyName(p, m, k) ==
    Some([provider |-> "groq", modelName |-> m, apiKey |-> k,
          middleware |-> "extractReasoning(think)"])

InitializeAIModel(p, m, k) ==
    IF p = "groq"
      THEN Some([provider |-> "groq", modelName |-> m, apiKey |-> k,
                 middleware |-> "extractReasoning(think)"])
      ELSE Undefined

(* --------------------------- result values ---------------------------- *)

\* String(err) of an Error object: Error.prototype.toString.
String(err) ==
    IF err.message = "" THEN err.name
    ELSE IF err.name = "" THEN err.message
    ELSE err.name \o ": " \o err.message

NoResult ==
    [success |-> FALSE, text |-> Undefined, reasoning |-> Undefined,
     usage |-> Undefined, textStream |-> Undefined, object |-> Undefined,
     partialObjectStream |-> Undefined, error |-> Undefined]

ModelNotSet == [NoResult EXCEPT !.error = Some("ai model not set")]

\* Mutant: the catch block reports err.message instead of String(err).
FailureMessageOnly(err) == [NoResult EXCEPT !.error = Some(err.message)]

Failure(err) == [NoResult EXCEPT !.error = Some(String(err))]

\* Mutant: the success result of the text methods leaves usage out.
AITextResponseNoUsage(out) ==
    [NoResult EXCEPT !.success = TRUE, !.text = out.text, !.reasoning = out.reasoning]

AITextResponse(out) ==
    [NoResult EXCEPT !.success = TRUE, !.text = out.text,
                     !.reasoning = out.reasoning, !.usage = out.usage]

AITextStreamResponse(out) ==
    [NoResult EXCEPT !.success = TRUE, !.textStream = out.textStream,
                     !.reasoning = out.reasoning]

AIObjectResponse(out) ==
    [NoResult EXCEPT !.success = TRUE, !.object = out.object, !.usage = out.usage]

AIObjectStreamResponse(out) ==
    [NoResult EXCEPT !.success = TRUE, !.partialObjectStream = out.partialObjectStream]

(* ------------------------- provider requests -------------------------- *)

Request(fn, m, messages, schema, output, enum, transform) ==
    [fn |-> fn, model |-> m, messages |-> messages, schema |-> schema,
     output |-> output, enum |-> enum, transform |-> transform]

GenerateTextRequest(m, messages) ==
    Request("generateText", m, messages, Undefined, "", <<>>, "")

StreamTextRequest(m, messages) ==
    Request("streamText", m, messages, Undefined, "", <<>>, "smoothStream()")

GenerateObjectRequest(m, messages, schema) ==
    Request("generateObject", m, messages, Some(schema), "object", <<>>, "")

StreamObjectRequest(m, messages, schema) ==
    Request("streamObject", m, messages, Some(schema), "object", <<>>, "")

\* Mutant: classifyText adds a fallback category of its own to the enum.
GenerateEnumRequestWithOther(m, messages, categories) ==
    Request("generateObject", m, messages, Undefined, "enum",
            Append(categories, "other"), "")

GenerateEnumRequest(m, messages, categories) ==
    Request("generateObject", m, messages, Undefined, "enum", categories, "")

\* Mutant: the attachment message is put in front of the caller's messages.
WithAttachmentFirst(messages, part) ==
    <<[role |-> "user", content |-> <<part>>]>> \o messages

\* [...messages, { role: "user", content: [part] }]
WithAttachment(messages, part) ==
    Append(messages, [role |-> "user", content |-> <<part>>])

ImageBytesPart(bytes) ==
    [type |-> "image", kind |-> "bytes", data |-> bytes, mimeType |-> ""]

ImageURLPart(url) ==
    [type |-> "image", kind |-> "url", data |-> url.href, mimeType |-> ""]

FilePart(bytes, mimeType) ==
    [type |-> "file", kind |-> "bytes", data |-> bytes, mimeType |-> mimeType]

(* ------------------------------- calls -------------------------------- *)

Ops ==
    {"chat", "streamChat", "createObject", "streamCreateObject", "classifyText",
     "chatWithImageFilePath", "chatWithImageURL", "chatWithFile",
     "extractDataFromFile"}

FileOps == {"chatWithImageFilePath", "chatWithFile", "extractDataFromFile"}
AttachmentOps == FileOps \cup {"chatWithImageURL"}
StreamOps == {"streamChat", "streamCreateObject"}

\* A slot no call occupies.
Idle ==
    [pc |-> "idle", op |-> "", messages |-> <<>>, given |-> <<>>,
     path |-> "", url |-> "", mimeType |-> "", schema |-> "", categories |-> <<>>,
     bytes |-> "", request |-> Undefined, log |-> <<>>, out |-> Undefined,
     fault |-> Undefined, completion |-> "pending", result |-> NoResult,
     stream |-> "none", reasoning |-> "none", raised |-> FALSE]

\* A call of method op entered with the caller's array messages.  given is
\* the array's content at entry, kept to compare with.
Enter(op, messages) ==
    [Idle EXCEPT !.pc = "running", !.op = op, !.messages = messages,
                 !.given = messages]

\* Mutant: the model check is missing.
ModelUnsetNever(m) == FALSE

\* if (!this.model)
ModelUnset(m) == m = Undefined

\* return <result>
Return(r, result) ==
    [r EXCEPT !.pc = "done", !.completion = "returned", !.result = result]

\* Mutant: the catch block logs the fault and throws it again.
CatchRethrow(r, origin, err) ==
    [r EXCEPT !.pc = "done", !.completion = "threw",
              !.fault = Some([origin |-> origin, err |-> err])]

\* catch (err) { console.error(err); return { success: false, error: String(err) } }
Catch(r, origin, err) ==
    Return([r EXCEPT !.fault = Some([origin |-> origin, err |-> err])], Failure(err))

\* await fs.readFileSync(path), the read having succeeded
AwaitRead(r, bytes) ==
    [r EXCEPT !.pc = "awaitRead", !.bytes = bytes, !.log = Append(@, "read")]

\* await <provider function>(req)
AwaitProvider(r, req) ==
    [r EXCEPT !.pc = "awaitProvider", !.request = Some(req),
              !.log = Append(@, "provider")]

\* The result a method builds from what its provider function resolved to.
Response(op, out) ==
    CASE op = "streamChat" -> AITextStreamResponse(out)
      [] op = "streamCreateObject" -> AIObjectStreamResponse(out)
      [] op \in {"createObject", "classifyText", "extractDataFromFile"} ->
            AIObjectResponse(out)
      [] OTHER -> AITextResponse(out)

\* A new call takes the first free slot.
CanCall(c) ==
    /\ calls[c].pc = "idle"
    /\ \A d \in Slots : d < c => calls[d].pc # "idle"
    /\ facadeCalls < MaxCalls

\* The steps shared by the five methods that read no file: the model check,
\* then the provider call, whose arguments are evaluated first.
Delegate(c, r, req) ==
    /\ facadeCalls' = facadeCalls + 1
    /\ IF ModelUnset(model)
         THEN /\ calls' = [calls EXCEPT ![c] = Return(r, ModelNotSet)]
              /\ UNCHANGED providerCalls
         ELSE /\ calls' = [calls EXCEPT ![c] = AwaitProvider(r, req)]
              /\ providerCalls' = providerCalls + 1
    /\ UNCHANGED <<facade, fileReads>>

\* Mutant: a failed read is swallowed and the method goes on with no bytes.
ReadThenAwaitSwallow(c, r) ==
    /\ facadeCalls' = facadeCalls + 1
    /\ IF ModelUnset(model)
         THEN /\ calls' = [calls EXCEPT ![c] = Return(r, ModelNotSet)]
              /\ UNCHANGED fileReads
         ELSE /\ fileReads' = fileReads + 1
              /\ calls' = [calls EXCEPT ![c] = AwaitRead(r, ReadFileSync(r.path).data)]
    /\ UNCHANGED <<facade, providerCalls>>

\* The steps shared by the three methods that read a file, up to the await
\* of the read.
ReadThenAwait(c, r) ==
    /\ facadeCalls' = facadeCalls + 1
    /\ IF ModelUnset(model)
         THEN /\ calls' = [calls EXCEPT ![c] = Return(r, ModelNotSet)]
              /\ UNCHANGED fileReads
         ELSE /\ fileReads' = fileReads + 1
              /\ LET rd == ReadFileSync(r.path) IN
                 calls' = [calls EXCEPT ![c] =
                            IF rd.ok THEN AwaitRead(r, rd.data)
                            ELSE Catch([r EXCEPT !.log = Append(@, "read")],
                                       "file", rd.err)]
    /\ UNCHANGED <<facade, providerCalls>>

(* ------------------------------ methods ------------------------------- *)

Chat(c) ==
    /\ CanCall(c)
    /\ \E messages \in MessageSeqs :
         Delegate(c, Enter("chat", messages), GenerateTextRequest(model, messages))

StreamChat(c) ==
    /\ CanCall(c)
    /\ \E messages \in MessageSeqs :
         Delegate(c, Enter("streamChat", messages),
                  StreamTextRequest(model, messages))

CreateObject(c) ==
    /\ CanCall(c)
    /\ \E messages \in MessageSeqs, schema \in Schemas :
         Delegate(c, [Enter("createObject", messages) EXCEPT !.schema = schema],
                  GenerateObjectRequest(model, messages, schema))

StreamCreateObject(c) ==
    /\ CanCall(c)
    /\ \E messages \in MessageSeqs, schema \in Schemas :
         Delegate(c, [Enter("streamCreateObject", messages) EXCEPT !.schema = schema],
                  StreamObjectRequest(model, messages, schema))

ClassifyText(c) ==
    /\ CanCall(c)
    /\ \E messages \in MessageSeqs, categories \in CategoryLists :
         Delegate(c, [Enter("classifyText", messages) EXCEPT !.categories = categories],
                  GenerateEnumRequest(model, messages, categories))

ChatWithImageFilePath(c) ==
    /\ CanCall(c)
    /\ \E messages \in MessageSeqs, imageFilePath \in Paths :
         ReadThenAwait(c, [Enter("chatWithImageFilePath", messages)
                             EXCEPT !.path = imageFilePath])

\* new URL(imageURL) is evaluated inside the try, before generateText is called.
ChatWithImageURL(c) ==
    /\ CanCall(c)
    /\ \E messages \in MessageSeqs, imageURL \in URLs :
         LET r == [Enter("chatWithImageURL", messages) EXCEPT !.url = imageURL]
             u == NewURL(imageURL)
         IN  IF ModelUnset(model) \/ u.ok
               THEN Delegate(c, r, GenerateTextRequest(model,
                                     WithAttachment(messages, ImageURLPart(u))))
               ELSE /\ facadeCalls' = facadeCalls + 1
                    /\ calls' = [calls EXCEPT ![c] = Catch(r, "url", u.err)]
                    /\ UNCHANGED <<facade, providerCalls, fileReads>>

ChatWithFile(c) ==
    /\ CanCall(c)
    /\ \E messages \in MessageSeqs, filePath \in Paths, mimeType \in MimeTypes :
         ReadThenAwait(c, [Enter("chatWithFile", messages)
                             EXCEPT !.path = filePath, !.mimeType = mimeType])

ExtractDataFromFile(c) ==
    /\ CanCall(c)
    /\ \E messages \in MessageSeqs, schema \in Schemas, filePath \in Paths,
          mimeType \in MimeTypes :
         ReadThenAwait(c, [Enter("extractDataFromFile", messages)
                             EXCEPT !.schema = schema, !.path = filePath,
                                    !.mimeType = mimeType])

\* The request a file method makes once the await of its read resumes.
FileRequest(r) ==
    CASE r.op = "chatWithImageFilePath" ->
            GenerateTextRequest(model,
                WithAttachment(r.messages, ImageBytesPart(r.bytes)))
      [] r.op = "chatWithFile" ->
            GenerateTextRequest(model,
                WithAttachment(r.messages, FilePart(r.bytes, r.mimeType)))
      [] OTHER ->
            GenerateObjectRequest(model,
                WithAttachment(r.messages, FilePart(r.bytes, r.mimeType)), r.schema)

ResumeAfterRead(c) ==
    /\ calls[c].pc = "awaitRead"
    /\ calls' = [calls EXCEPT ![c] = AwaitProvider(@, FileRequest(@))]
    /\ providerCalls' = providerCalls + 1
    /\ UNCHANGED <<facade, facadeCalls, fileReads>>

\* The provider function resolves: the method returns its success result.
\* A streaming method hands back the provider's stream and promise as they are.
ProviderResolves(c) ==
    /\ calls[c].pc = "awaitProvider"
    /\ \E out \in ProviderOutputs(calls[c].request[1]) :
         LET r == calls[c]
             handed == [r EXCEPT !.out = Some(out),
                                 !.stream = IF r.op \in StreamOps THEN "open" ELSE "none",
                                 !.reasoning = IF r.op = "streamChat" THEN "pending"
                                               ELSE "none"]
         IN  calls' = [calls EXCEPT ![c] = Return(handed, Response(r.op, out))]
    /\ UNCHANGED <<facade, facadeCalls, providerCalls, fileReads>>

\* Mutant: a failed provider call is made once more before giving up.
ProviderRejectsRetry(c) ==
    /\ calls[c].pc = "awaitProvider"
    /\ IF Len(SelectSeq(calls[c].log, LAMBDA e : e = "provider")) < 2
         THEN /\ calls' = [calls EXCEPT ![c] = AwaitProvider(@, calls[c].request[1])]
              /\ providerCalls' = providerCalls + 1
         ELSE /\ \E err \in ProviderFaults :
                   calls' = [calls EXCEPT ![c] = Catch(@, "provider", err)]
              /\ UNCHANGED providerCalls
    /\ UNCHANGED <<facade, facadeCalls, fileReads>>

\* The provider function throws: the method's catch block runs.
ProviderRejects(c) ==
    /\ calls[c].pc = "awaitProvider"
    /\ \E err \in ProviderFaults :
         calls' = [calls EXCEPT ![c] = Catch(@, "provider", err)]
    /\ UNCHANGED <<facade, facadeCalls, providerCalls, fileReads>>

(* ------------------- the caller, after a call returned ---------------- *)

\* for await (const chunk of textStream / partialObjectStream): the stream ends.
DrainStream(c) ==
    /\ calls[c].pc = "done" /\ calls[c].stream = "open"
    /\ calls' = [calls EXCEPT ![c].stream = "ended"]
    /\ UNCHANGED <<facade, facadeCalls, providerCalls, fileReads>>

\* The provider fails while the caller iterates the stream it was handed.  The
\* stream is the provider's own object: its iterator either rejects, which the
\* caller's for-await raises, or ends early, as the provider decides.
StreamFaults(c) ==
    /\ calls[c].pc = "done" /\ calls[c].stream = "open"
    /\ \E rejects \in BOOLEAN :
         calls' = [calls EXCEPT ![c].stream = IF rejects THEN "errored" ELSE "ended",
                                ![c].raised = @ \/ rejects]
    /\ UNCHANGED <<facade, facadeCalls, providerCalls, fileReads>>

\* await result.reasoning: the provider's promise settles.
ReasoningSettles(c) ==
    /\ calls[c].pc = "done" /\ calls[c].reasoning = "pending"
    /\ \E rejects \in BOOLEAN :
         calls' = [calls EXCEPT ![c].reasoning = IF rejects THEN "rejected" ELSE "resolved",
                                ![c].raised = @ \/ rejects]
    /\ UNCHANGED <<facade, facadeCalls, providerCalls, fileReads>>

\* The caller is finished with a call; its slot is free for the next one.
Forget(c) ==
    /\ calls[c].pc = "done"
    /\ calls[c].stream # "open" /\ calls[c].reasoning # "pending"
    /\ calls' = [calls EXCEPT ![c] = Idle]
    /\ UNCHANGED <<facade, facadeCalls, providerCalls, fileReads>>

(* --------------------------- specification ---------------------------- *)

\* new AI(provider, modelName, apiKey)
Init ==
    /\ provider \in ProviderNames
    /\ modelName \in ModelNames
    /\ apiKey \in ApiKeys
    /\ model = InitializeAIModel(provider, modelName, apiKey)
    /\ calls = [c \in Slots |-> Idle]
    /\ facadeCalls = 0
    /\ providerCalls = 0
    /\ fileReads = 0

Next ==
    \E c \in Slots :
        \/ Chat(c)
        \/ StreamChat(c)
        \/ CreateObject(c)
        \/ StreamCreateObject(c)
        \/ ClassifyText(c)
        \/ ChatWithImageFilePath(c)
        \/ ChatWithImageURL(c)
        \/ ChatWithFile(c)
        \/ ExtractDataFromFile(c)
        \/ ResumeAfterRead(c)
        \/ ProviderResolves(c)
        \/ ProviderRejects(c)
        \/ DrainStream(c)
        \/ StreamFaults(c)
        \/ ReasoningSettles(c)
        \/ Forget(c)

Spec == Init /\ [][Next]_vars

(* ------------------------------ claims -------------------------------- *)

Done(c) == calls[c].pc = "done"

PayloadFields ==
    {"text", "reasoning", "usage", "textStream", "object", "partialObjectStream"}

\* The payload fields the result type of a method declares.
DeclaredFields(op) ==
    CASE op = "streamChat" -> {"textStream", "reasoning"}
      [] op = "streamCreateObject" -> {"partialObjectStream"}
      [] op \in {"createObject", "classifyText", "extractDataFromFile"} ->
            {"object", "usage"}
      [] OTHER -> {"text", "reasoning", "usage"}

TextOps == {"chat", "chatWithImageFilePath", "chatWithImageURL", "chatWithFile"}

\* C1: on a facade constructed with an unrecognized provider name every call
\* returns success=false with error exactly "ai model not set", and no file is
\* read and no provider function is called.
C1_UnconfiguredFailsWithoutIO ==
    model = Undefined =>
        /\ fileReads = 0
        /\ providerCalls = 0
        /\ \A c \in Slots :
             /\ calls[c].pc \in {"idle", "done"}
             /\ calls[c].log = <<>>
             /\ calls[c].request = Undefined
             /\ Done(c) =>
                  /\ calls[c].completion = "returned"
                  /\ calls[c].result.success = FALSE
                  /\ calls[c].result.error = <<"ai model not set">>

C1_Witness ==
    /\ model = Undefined
    /\ Done(1) /\ calls[1].op \in FileOps
    /\ Done(2) /\ calls[2].op = "chatWithImageURL"

\* C2: a fault raised during a call (file read, URL construction, provider
\* call) is caught: the call returns success=false with error the string
\* description of the fault, and no call ends by throwing.
C2_FaultsBecomeResults ==
    \A c \in Slots :
        /\ calls[c].completion # "threw"
        /\ Done(c) => calls[c].completion = "returned"
        /\ Done(c) /\ calls[c].fault # Undefined =>
              /\ calls[c].result.success = FALSE
              /\ calls[c].result.error = <<String(calls[c].fault[1].err)>>

C2_Witness ==
    /\ Done(1) /\ calls[1].fault # Undefined /\ calls[1].fault[1].origin = "file"
    /\ Done(2) /\ calls[2].fault # Undefined /\ calls[2].fault[1].origin = "provider"

\* C3: every returned result is either success=true with a payload field
\* populated and no error, or success=false with a non-empty error string and
\* no payload field populated.
C3_ResultIsSuccessXorError ==
    \A c \in Slots :
        Done(c) =>
            LET res == calls[c].result IN
            \/ /\ res.success = TRUE
               /\ res.error = Undefined
               /\ \E f \in PayloadFields : res[f] # Undefined
            \/ /\ res.success = FALSE
               /\ res.error # Undefined
               /\ res.error[1] # ""
               /\ \A f \in PayloadFields : res[f] = Undefined

C3_Witness ==
    /\ Done(1) /\ calls[1].result.success
    /\ Done(2) /\ calls[2].fault # Undefined /\ calls[2].fault[1].err.message = ""

\* C4, as claimed: whenever the provider call completes successfully the
\* result has success=true, every payload field its type declares populated,
\* and no error.
C4_EveryDeclaredFieldPopulated ==
    \A c \in Slots :
        Done(c) /\ calls[c].out # Undefined =>
            /\ calls[c].result.success = TRUE
            /\ calls[c].result.error = Undefined
            /\ \A f \in DeclaredFields(calls[c].op) : calls[c].result[f] # Undefined

\* C4, as amended: whenever the provider call completes successfully the
\* result has success=true and no error, every declared payload field is
\* populated except reasoning of the four text methods, which is what the
\* provider returned and is undefined when the provider returned none.
C4_DeclaredFieldsButReasoning ==
    \A c \in Slots :
        Done(c) /\ calls[c].out # Undefined =>
            LET op == calls[c].op
                res == calls[c].result
                optional == IF op \in TextOps THEN {"reasoning"} ELSE {}
            IN  /\ res.success = TRUE
                /\ res.error = Undefined
                /\ \A f \in DeclaredFields(op) \ optional : res[f] # Undefined
                /\ res.reasoning = calls[c].out[1].reasoning
                /\ \A f \in PayloadFields \ DeclaredFields(op) : res[f] = Undefined

C4_Witness ==
    \E c \in Slots :
        /\ Done(c) /\ calls[c].op \in TextOps
        /\ calls[c].result.success
        /\ calls[c].result.reasoning = Undefined
        /\ calls[c].result.text # Undefined

\* C5: in the three file methods on a configured facade the file is read
\* before the provider is called, and when the file cannot be read the call
\* returns success=false with a non-empty error and the provider is not called.
C5_ReadPrecedesProvider ==
    \A c \in Slots :
        calls[c].op \in FileOps /\ model # Undefined =>
            /\ calls[c].log \in { <<"read">>, <<"read", "provider">> }
            /\ calls[c].pc = "awaitRead" => calls[c].log = <<"read">>
            /\ Done(c) /\ ~ReadFileSync(calls[c].path).ok =>
                  /\ calls[c].result.success = FALSE
                  /\ calls[c].result.error # Undefined
                  /\ calls[c].result.error[1] # ""
                  /\ calls[c].request = Undefined
                  /\ calls[c].log = <<"read">>

C5_Witness ==
    /\ model # Undefined
    /\ Done(1) /\ calls[1].op \in FileOps /\ ~ReadFileSync(calls[1].path).ok
    /\ Done(2) /\ calls[2].op \in FileOps /\ calls[2].log = <<"read", "provider">>

\* The one content part the trailing message of an attachment method holds.
ExpectedPart(r) ==
    CASE r.op = "chatWithImageFilePath" ->
            [type |-> "image", kind |-> "bytes",
             data |-> ReadFileSync(r.path).data, mimeType |-> ""]
      [] r.op = "chatWithImageURL" ->
            [type |-> "image", kind |-> "url",
             data |-> NewURL(r.url).href, mimeType |-> ""]
      [] OTHER ->
            [type |-> "file", kind |-> "bytes",
             data |-> ReadFileSync(r.path).data, mimeType |-> r.mimeType]

\* C6: the messages delivered to the provider are the caller's, in order; the
\* four attachment methods add exactly one trailing user message with a single
\* content part, the other five add nothing; the caller's own sequence is
\* unchanged.
C6_MessagesPassThrough ==
    \A c \in Slots :
        /\ calls[c].messages = calls[c].given
        /\ calls[c].request # Undefined =>
             LET sent == calls[c].request[1].messages
                 n == Len(calls[c].given)
             IN  IF calls[c].op \in AttachmentOps
                   THEN /\ Len(sent) = n + 1
                        /\ SubSeq(sent, 1, n) = calls[c].given
                        /\ sent[n + 1].role = "user"
                        /\ sent[n + 1].content = <<ExpectedPart(calls[c])>>
                   ELSE sent = calls[c].given

C6_Witness ==
    /\ Done(1) /\ calls[1].op \in AttachmentOps /\ calls[1].request # Undefined
    /\ Len(calls[1].given) >= 2
    /\ Done(2) /\ calls[2].op \notin AttachmentOps /\ calls[2].request # Undefined
    /\ Len(calls[2].given) >= 2

Count(log, e) == Len(SelectSeq(log, LAMBDA x : x = e))

\* C7: a call makes at most one provider call and at most one file read, so
\* provider calls never outnumber facade calls, and a call whose provider call
\* failed has made no second one.
C7_NoRetries ==
    /\ providerCalls <= facadeCalls
    /\ fileReads <= facadeCalls
    /\ \A c \in Slots :
         /\ Count(calls[c].log, "provider") <= 1
         /\ Count(calls[c].log, "read") <= 1
         /\ calls[c].fault # Undefined => calls[c].pc = "done"

C7_Witness ==
    /\ facadeCalls >= 2
    /\ providerCalls = facadeCalls
    /\ \A c \in Slots :
         /\ Done(c)
         /\ calls[c].fault # Undefined
         /\ calls[c].fault[1].origin = "provider"

\* C8: classifyText passes the caller's categories to the provider as the
\* enum and returns the provider's object unaltered, so a successful result
\* carries a member of the categories.
C8_ClassifyPassesCategories ==
    \A c \in Slots :
        calls[c].op = "classifyText" =>
            /\ calls[c].request # Undefined =>
                 /\ calls[c].request[1].fn = "generateObject"
                 /\ calls[c].request[1].output = "enum"
                 /\ calls[c].request[1].enum = calls[c].categories
            /\ Done(c) /\ calls[c].result.success =>
                 /\ calls[c].result.object = calls[c].out[1].object
                 /\ \E i \in 1..Len(calls[c].categories) :
                      calls[c].result.object = <<calls[c].categories[i]>>

C8_Witness ==
    \E c \in Slots :
        /\ Done(c) /\ calls[c].op = "classifyText" /\ calls[c].result.success
        /\ calls[c].result.object = <<"ham">>

\* C9: the model handle is resolved exactly when the constructor's provider
\* name is "groq", no step changes it, and every provider call carries it.
C9_HandleFixedAtConstruction ==
    /\ [](/\ (model # Undefined) <=> (provider = "groq")
          /\ \A c \in Slots :
               calls[c].request # Undefined =>
                 /\ model # Undefined
                 /\ calls[c].request[1].model = model)
    /\ [][model' = model /\ provider' = provider]_vars

C9_Witness ==
    /\ model # Undefined
    /\ Done(1) /\ calls[1].result.success /\ calls[1].request # Undefined
    /\ Done(2) /\ ~calls[2].result.success /\ calls[2].request # Undefined

\* C10, as claimed: after a streaming method returned success=true, a provider
\* fault met while the caller drains the stream or awaits the reasoning
\* promise is never raised to the caller.
C10_DrainingNeverRaises ==
    \A c \in Slots : calls[c].op \in StreamOps => ~calls[c].raised

====
